---- MODULE Spec2Model ----
(***************************************************************************)
(* Model of the ESS stream client (ess_client.py) and its services         *)
(* (services/RabbitService.py, services/AlertService.py).                  *)
(*                                                                         *)
(* The MongoDB collection "alerts" is a bag of documents.  A document      *)
(* whose _id was generated by the server carries the value ObjectId: no    *)
(* code of the repository ever queries by a generated _id, so the distinct *)
(* generated values are kept as the multiplicity of the document in the    *)
(* bag.  A document inserted with an explicit _id is unique in the bag     *)
(* (the _id index of MongoDB).                                             *)
(*                                                                         *)
(* Time is counted in minutes.                                             *)
(***************************************************************************)
EXTENDS Integers, FiniteSets, Sequences, Bags, TLC

----------------------------------------------------------------------------
(* Bounds of the model *)

MaxDocs == 2        \* documents the dispatcher may have put in the collection
MaxInFlight == 2    \* units of work of on_metagame_event in progress at once
MaxBacklog == 32    \* stale documents left in the collection by earlier runs

(* Program constants *)

BatchSize == 30         \* cursor.to_list(length=30)
RetentionMinutes == 90  \* timedelta(hours=1, minutes=30)

----------------------------------------------------------------------------
(* Values *)

WorldIds == {17}
InstanceIds == {1, 2}

\* The instants the clock takes: the epoch, and a minute more than one
\* retention window later (the cutoff is then minute 1)
Times == {0, RetentionMinutes + 1}

\* MetagameEvent.metagame_event_state_name
StateNames == {"started", "restarted", "cancelled", "ended", "xp_bonus_changed"}

NoField == << >>              \* the key is not in the dictionary
ObjectId == <<"ObjectId">>    \* an _id generated by the server

\* constants.typings.UniqueEventId(world_id, instance_id): the identity of an
\* alert, a value determined by the pair and different for different pairs.
UniqueEventId(world_id, instance_id) == <<world_id, instance_id>>

Identities == {UniqueEventId(w, i) : w \in WorldIds, i \in InstanceIds}

\* auraxium.event.MetagameEvent as delivered to the trigger; the fields that no
\* code branches on are fixed.
MetagameEvents(ts) ==
    [world_id : WorldIds, instance_id : InstanceIds,
     metagame_event_id : {42}, metagame_event_state_name : StateNames,
     zone_id : {2}, faction_nc : {40}, faction_tr : {30}, faction_vs : {20},
     experience_bonus : {25}, timestamp : ts]

\* models.MetagameEvent(id=unique_id, event_id=..., ...) and asdict() of it
EventData(evt) ==
    [id |-> UniqueEventId(evt.world_id, evt.instance_id),
     event_id |-> evt.metagame_event_id,
     state |-> evt.metagame_event_state_name,
     world_id |-> evt.world_id,
     zone_id |-> evt.zone_id,
     nc |-> evt.faction_nc,
     tr |-> evt.faction_tr,
     vs |-> evt.faction_vs,
     xp |-> evt.experience_bonus,
     timestamp |-> evt.timestamp]

\* json.dumps(event_data, default=pydantic_encoder): the members of the JSON
\* object in the order of the dataclass fields
JsonDumps(d) ==
    << <<"id", d.id>>, <<"event_id", d.event_id>>, <<"state", d.state>>,
       <<"world_id", d.world_id>>, <<"zone_id", d.zone_id>>, <<"nc", d.nc>>,
       <<"tr", d.tr>>, <<"vs", d.vs>>, <<"xp", d.xp>>,
       <<"timestamp", d.timestamp>> >>

\* json.loads of a message body: the value of the member named key
JsonMember(msg, key) ==
    (msg[CHOOSE k \in 1..Len(msg) : msg[k][1] = key])[2]

----------------------------------------------------------------------------
(* MongoDB collection operations, as pymongo/motor define them *)

\* A stored document: the dictionary handed to insert_one, with its _id
StoredDoc(d, oid) ==
    [_id |-> oid, id |-> d.id, event_id |-> d.event_id, state |-> d.state,
     world_id |-> d.world_id, zone_id |-> d.zone_id, nc |-> d.nc, tr |-> d.tr,
     vs |-> d.vs, xp |-> d.xp, timestamp |-> d.timestamp]

\* The dictionary handed to insert_one, when it carries its own "_id" and no
\* "id" (the shape simulate_alert.py builds)
KeyedDoc(key, ts) ==
    [_id |-> key, id |-> NoField, event_id |-> 123, state |-> "started",
     world_id |-> 17, zone_id |-> 1, nc |-> 40, tr |-> 30, vs |-> 20,
     xp |-> 25, timestamp |-> ts]

One(doc) == SetToBag({doc})

\* Query filters: {"id": v}, {"_id": v}, {"timestamp": {"$lt": v}}, None
ById(v) == [field |-> "id", op |-> "eq", value |-> v]
ByKey(v) == [field |-> "_id", op |-> "eq", value |-> v]
OlderThan(v) == [field |-> "timestamp", op |-> "lt", value |-> v]
Everything == [field |-> "*", op |-> "all", value |-> NoField]

Matches(doc, query) ==
    CASE query.op = "all" -> TRUE
      [] query.op = "lt" -> doc.timestamp < query.value
      [] query.field = "id" -> doc.id = query.value
      [] OTHER -> doc._id = query.value

\* The documents of the collection that match, with their multiplicities
FindBag(coll, query) ==
    [doc \in {x \in BagToSet(coll) : Matches(x, query)} |-> coll[doc]]

CountDocuments(coll, query) == BagCardinality(FindBag(coll, query))

\* Faulty variant of InsertOne: the "_id" of the document is not used
InsertOneGenerated(coll, d) ==
    [error |-> "none", coll |-> coll (+) One([d EXCEPT !._id = ObjectId]),
     inserted_id |-> ObjectId]

\* collection.insert_one(document): the outcomes.  A document without "_id"
\* gets a generated one and is always inserted; a document whose "_id" is in
\* the collection is refused with DuplicateKeyError.
InsertOne(coll, d) ==
    IF d._id = NoField
    THEN [error |-> "none", coll |-> coll (+) One([d EXCEPT !._id = ObjectId]),
          inserted_id |-> ObjectId]
    ELSE IF \E x \in BagToSet(coll) : x._id = d._id
    THEN [error |-> "DuplicateKeyError", coll |-> coll, inserted_id |-> NoField]
    ELSE [error |-> "none", coll |-> coll (+) One(d), inserted_id |-> d._id]

\* collection.delete_one(filter): the possible outcomes.  One matching
\* document is deleted, the first in the collection's natural order, which
\* this model does not fix; without a match nothing is deleted.
DeleteOne(coll, query) ==
    IF CountDocuments(coll, query) = 0
    THEN {[coll |-> coll, deleted_count |-> 0]}
    ELSE {[coll |-> coll (-) One(doc), deleted_count |-> 1] :
             doc \in BagToSet(FindBag(coll, query))}

\* collection.delete_many(filter)
DeleteMany(coll, query) ==
    [coll |-> coll (-) FindBag(coll, query),
     deleted_count |-> CountDocuments(coll, query)]

Min(a, b) == IF a < b THEN a ELSE b

\* collection.find(filter) then cursor.to_list(length): the possible results,
\* up to length matching documents (which ones is not fixed)
ToList(coll, query, length) ==
    {b \in SubBag(FindBag(coll, query)) :
        BagCardinality(b) = Min(length, CountDocuments(coll, query))}

----------------------------------------------------------------------------
VARIABLES
    RABBITMQ_ENABLED,    \* os.getenv('RABBITMQ_ENABLED') == 'True'
    pc,                  \* where main() is
    rabbit,              \* the Rabbit service object
    alerts,              \* the collection db.alerts
    units,               \* units of work of on_metagame_event in progress
    stale_alerts,        \* purge_stale_alerts: documents read, not yet deleted
    deleted_count,       \* purge_stale_alerts: deleted_count
    max_age,             \* purge_stale_alerts: max_age
    alert,               \* the Alert service object
    now,                 \* datetime.utcnow(), in minutes
    last                 \* what the latest call returned (observation only)

vars == <<RABBITMQ_ENABLED, pc, rabbit, alerts, units,
          stale_alerts, deleted_count, max_age, alert, now, last>>

NoStep == [op |-> "none"]

----------------------------------------------------------------------------
(* services/RabbitService.py *)

\* Rabbit.__init__
NewRabbit == [is_ready |-> FALSE, rmq_conn |-> FALSE, channel |-> FALSE,
              exchange |-> "none"]

\* Faulty variant of RabbitSetup: the exchange is not declared
RabbitSetupUndeclared(r, awaited) ==
    [is_ready |-> awaited = 3,
     rmq_conn |-> awaited >= 1,
     channel |-> awaited >= 2,
     exchange |-> r.exchange]

\* Rabbit.setup: connect, open a channel, declare the direct exchange
\* 'events', then is_ready = True.  awaited is the number of the three awaits
\* that succeed; the next one raises.
RabbitSetup(r, awaited) ==
    [is_ready |-> awaited = 3,
     rmq_conn |-> awaited >= 1,
     channel |-> awaited >= 2,
     exchange |-> IF awaited = 3 THEN "events" ELSE r.exchange]

\* Rabbit.publish: the Message handed to exchange.publish
RabbitMessage(body) ==
    [body |-> body, content_encoding |-> "application/json",
     delivery_mode |-> "PERSISTENT", exchange |-> "events",
     routing_key |-> "metagame"]

----------------------------------------------------------------------------
(* ess_client.py: main() up to the subscription *)

NewAlert == [is_ready |-> FALSE]

Init ==
    /\ RABBITMQ_ENABLED \in BOOLEAN
    /\ pc = "start_services"
    /\ rabbit = NewRabbit
    /\ alerts = EmptyBag
    /\ units = EmptyBag
    /\ stale_alerts = EmptyBag
    /\ deleted_count = 0
    /\ max_age = 0
    /\ alert = NewAlert
    /\ now = 0
    /\ last = NoStep

\* start_services(): with the broker enabled and not ready, rabbit.setup();
\* an exception of setup leaves main() (the task ends, the loop keeps running)
start_services ==
    /\ pc = "start_services"
    /\ \E awaited \in 0..3 :
          LET setup == RABBITMQ_ENABLED /\ ~rabbit.is_ready
              raised == setup /\ awaited < 3
          IN  /\ rabbit' = IF setup THEN RabbitSetup(rabbit, awaited) ELSE rabbit
              /\ pc' = IF raised THEN "failed" ELSE "setup_timeseries"
              /\ last' = NoStep
    /\ UNCHANGED <<RABBITMQ_ENABLED, alerts, units,
                   stale_alerts, deleted_count, max_age, alert, now>>

\* The statement of main() that follows setup_timeseries;
\* purge is os.getenv('PURGE_STALE_ALERTS') == 'True', read by this test only
AfterSetupTimeseries(purge) == IF purge THEN "purge_read" ELSE "listening"

\* setup_timeseries(): create_collection('realtime', ...).  CollectionInvalid
\* (the collection exists) is caught; any other exception (the options hold
\* Python types that bson cannot encode, the server is unreachable) leaves
\* main().
setup_timeseries ==
    /\ pc = "setup_timeseries"
    /\ \E raised \in BOOLEAN, PURGE_STALE_ALERTS \in BOOLEAN :
          /\ pc' = IF raised THEN "failed"
                   ELSE AfterSetupTimeseries(PURGE_STALE_ALERTS)
          /\ last' = NoStep
    /\ UNCHANGED <<RABBITMQ_ENABLED, rabbit, alerts, units,
                   stale_alerts, deleted_count, max_age, alert, now>>

----------------------------------------------------------------------------
(* ess_client.py: purge_stale_alerts() *)

\* max_age = datetime.utcnow() - timedelta(hours=1, minutes=30)
MaxAge(utcnow) == utcnow - RetentionMinutes

\* cursor = db.alerts.find({'timestamp': {'$lt': max_age}});
\* await cursor.to_list(length=30): the lists it may return
StaleRead(coll, cutoff) == ToList(coll, OlderThan(cutoff), BatchSize)

\* What purge_stale_alerts does after the documents of one read are deleted
AfterBatch == "listening"

\* The read: one find and one to_list, then the test len(stale_alerts) > 0
purge_read ==
    /\ pc = "purge_read"
    /\ \E raised \in BOOLEAN :
          IF raised
          THEN /\ pc' = "failed"
               /\ last' = [op |-> "purge_read", raised |-> TRUE]
               /\ UNCHANGED <<stale_alerts, deleted_count, max_age>>
          ELSE \E batch \in StaleRead(alerts, MaxAge(now)) :
               /\ max_age' = MaxAge(now)
               /\ stale_alerts' = batch
               /\ deleted_count' = 0
               /\ pc' = IF BagCardinality(batch) > 0 THEN "purge_delete"
                        ELSE "listening"
               /\ last' = [op |-> "purge_read", raised |-> FALSE]
    /\ UNCHANGED <<RABBITMQ_ENABLED, rabbit, alerts, units,
                   alert, now>>

\* Faulty variant of PurgeFilter: the documents as old as the one read
PurgeFilterByAge(i) == OlderThan(i.timestamp + 1)

\* The filter of the delete_one of the loop
PurgeFilter(i) == ById(i.id)

\* One turn of `for i in stale_alerts`: delete_one({"id": i['id']}).  A
\* document without the key "id" raises KeyError, which leaves main().
purge_delete ==
    /\ pc = "purge_delete"
    /\ stale_alerts # EmptyBag
    /\ \E i \in BagToSet(stale_alerts), raised \in BOOLEAN :
          IF raised \/ i.id = NoField
          THEN /\ pc' = "failed"
               /\ last' = [op |-> "purge_delete", raised |-> TRUE, doc |-> i,
                           before |-> alerts]
               /\ UNCHANGED <<alerts, stale_alerts, deleted_count>>
          ELSE \E result \in DeleteOne(alerts, PurgeFilter(i)) :
               /\ alerts' = result.coll
               /\ deleted_count' = deleted_count + result.deleted_count
               /\ stale_alerts' = stale_alerts (-) One(i)
               /\ pc' = "purge_delete"
               /\ last' = [op |-> "purge_delete", raised |-> FALSE, doc |-> i,
                           before |-> alerts]
    /\ UNCHANGED <<RABBITMQ_ENABLED, rabbit, units,
                   max_age, alert, now>>

\* The loop is over: log 'Found and removed ...' and return to main()
purge_return ==
    /\ pc = "purge_delete"
    /\ stale_alerts = EmptyBag
    /\ pc' = AfterBatch
    /\ last' = [op |-> "purge_return", deleted_count |-> deleted_count]
    /\ UNCHANGED <<RABBITMQ_ENABLED, rabbit, alerts, units,
                   stale_alerts, deleted_count, max_age, alert, now>>

----------------------------------------------------------------------------
(* ess_client.py: on_metagame_event, one unit of work per event delivered *)

\* The timestamps an event delivered at utcnow may carry: the event source
\* stamps the event when it sends it
EventTimes(utcnow) == {utcnow}

\* Documents the dispatcher has inserted or is about to insert
Pending == BagCardinality(
    [u \in {x \in BagToSet(units) : x.dict_event.state = "started"} |-> units[u]])

\* Faulty variant of FirstAwait: the test of the flag is inverted
FirstAwaitInverted(enabled) == IF enabled THEN "store" ELSE "publish"

\* Faulty variant of FirstAwait: the flag is not tested
FirstAwaitPublish(enabled) == "publish"

\* `if RABBITMQ_ENABLED == 'True':` the first await of the handler
FirstAwait(enabled) == IF enabled THEN "publish" ELSE "store"

\* Faulty variant of Subscribed: the triggers are registered before the purge
SubscribedEarly(at) == at \in {"purge_read", "purge_delete", "listening"}

\* main() has entered `async with auraxium.EventClient(...)` and registered
\* the trigger, which is the statement after the purge
Subscribed(at) == at = "listening"

\* The event is an 'ended' or 'cancelled' notification
Terminates(evt) == evt.metagame_event_state_name \in {"ended", "cancelled"}

\* The unit of work u handles a 'started' notification of the identity of evt
StartOf(u, evt) ==
    /\ u.evt.metagame_event_state_name = "started"
    /\ u.unique_id = UniqueEventId(evt.world_id, evt.instance_id)

\* History, for the properties only (no code reads it): a unit of work of a
\* 'started' notification remembers that an 'ended' or 'cancelled'
\* notification of its identity was delivered while it was in progress
Mark(u, evt) ==
    IF Terminates(evt) /\ StartOf(u, evt)
    THEN [u EXCEPT !.overlap = "then_ended"] ELSE u

Overlapped(in_flight, evt) ==
    LET marked == {Mark(u, evt) : u \in BagToSet(in_flight)}
    IN  [m \in marked |->
            BagCardinality([u \in {x \in BagToSet(in_flight) : Mark(x, evt) = m}
                               |-> in_flight[u]])]

\* The trigger calls the handler: everything up to the first await
on_metagame_event(evt) ==
    /\ Subscribed(pc)
    /\ BagCardinality(units) < MaxInFlight
    /\ evt.metagame_event_state_name = "started"
          => BagCardinality(alerts) + Pending < MaxDocs
    /\ LET unique_id == UniqueEventId(evt.world_id, evt.instance_id)
           event_data == EventData(evt)
       IN  /\ units' = Overlapped(units, evt) (+) One(
                  [pc |-> FirstAwait(RABBITMQ_ENABLED),
                   evt |-> evt,
                   unique_id |-> unique_id,
                   dict_event |-> event_data,
                   json_event |-> JsonDumps(event_data),
                   published |-> << >>,
                   overlap |-> "none"])
           /\ last' = NoStep
    /\ UNCHANGED <<RABBITMQ_ENABLED, pc, rabbit, alerts,
                   stale_alerts, deleted_count, max_age, alert, now>>

\* Faulty variant of AfterPublish: the handler publishes once more
AfterPublishAgain == "publish"

\* The await after a successful publish
AfterPublish == "store"

\* `await rabbit.publish(bytes(json_event, encoding='utf-8'))`: the message is
\* handed to the exchange, or publish raises and the handler ends there
on_metagame_event_publish(u) ==
    /\ u.pc = "publish"
    /\ \E raised \in BOOLEAN :
          LET message == RabbitMessage(u.json_event)
          IN  IF raised \/ rabbit.exchange # "events"
              THEN /\ units' = units (-) One(u)
                   /\ last' = [op |-> "publish", raised |-> TRUE]
              ELSE /\ units' = (units (-) One(u)) (+) One(
                          [u EXCEPT !.pc = AfterPublish,
                                    !.published = Append(u.published, message)])
                   /\ last' = [op |-> "publish", raised |-> FALSE]
    /\ UNCHANGED <<RABBITMQ_ENABLED, pc, rabbit, alerts,
                   stale_alerts, deleted_count, max_age, alert, now>>

\* A Python string used as a condition
Truthy(str) == str # ""

\* `evt.metagame_event_state_name == 'ended' or 'cancelled'`
EndedOrCancelled(state_name) == (state_name = "ended") \/ Truthy("cancelled")

\* Faulty variant of StoreBranch: the two tests in the other order
StoreBranchSwapped(state_name) ==
    IF EndedOrCancelled(state_name) THEN "delete_one"
    ELSE IF state_name = "started" THEN "insert_one"
    ELSE "none"

\* The if / elif of "Add or remove from database"
StoreBranch(state_name) ==
    IF state_name = "started" THEN "insert_one"
    ELSE IF EndedOrCancelled(state_name) THEN "delete_one"
    ELSE "none"

\* The outcomes of the store statement of a unit of work on collection coll:
\* insert_one(dict_event), delete_one({"id": unique_id}) or nothing; the
\* awaited call may raise (the server is unreachable)
StoreOutcomes(coll, u) ==
    LET branch == StoreBranch(u.evt.metagame_event_state_name)
        failure == [op |-> branch, raised |-> TRUE, deleted_count |-> 0,
                    coll |-> coll]
    IN  CASE branch = "insert_one" ->
               LET r == InsertOne(coll, StoredDoc(u.dict_event, NoField))
               IN  {[op |-> branch, raised |-> r.error # "none",
                     deleted_count |-> 0, coll |-> r.coll], failure}
          [] branch = "delete_one" ->
               {[op |-> branch, raised |-> FALSE,
                 deleted_count |-> r.deleted_count, coll |-> r.coll] :
                    r \in DeleteOne(coll, ById(u.unique_id))} \cup {failure}
          [] OTHER ->
               {[op |-> "none", raised |-> FALSE, deleted_count |-> 0,
                 coll |-> coll]}

\* "Add or remove from database", then the handler returns
on_metagame_event_store(u) ==
    /\ u.pc = "store"
    /\ \E store \in StoreOutcomes(alerts, u) :
          /\ alerts' = store.coll
          /\ last' = [op |-> store.op, raised |-> store.raised,
                      deleted_count |-> store.deleted_count]
    /\ units' = units (-) One(u)
    /\ UNCHANGED <<RABBITMQ_ENABLED, pc, rabbit,
                   stale_alerts, deleted_count, max_age, alert, now>>

----------------------------------------------------------------------------
(* The environment of the process *)

\* The least instant of Times after t
NextTime(t) == CHOOSE n \in Times : n > t /\ \A m \in Times : m > t => n <= m

\* Time passes, by more than a retention window: between units of work, whose
\* awaits are network round trips
Tick ==
    /\ \E n \in Times : n > now
    /\ units = EmptyBag
    /\ now' = NextTime(now)
    /\ last' = NoStep
    /\ UNCHANGED <<RABBITMQ_ENABLED, pc, rabbit, alerts,
                   units, stale_alerts, deleted_count, max_age, alert>>

\* `except KeyboardInterrupt: pass`: loop.run_forever() returns only when the
\* process is interrupted, and then the process exits.  An exception of main()
\* ends the task that loop.create_task made, not the loop.
KeyboardInterrupt ==
    /\ pc # "exited"
    /\ pc' = "exited"
    /\ rabbit' = NewRabbit
    /\ units' = EmptyBag
    /\ stale_alerts' = EmptyBag
    /\ deleted_count' = 0
    /\ max_age' = 0
    /\ last' = NoStep
    /\ UNCHANGED <<RABBITMQ_ENABLED, alerts, alert, now>>

\* `if __name__ == '__main__':` the process is stopped and started again; the
\* collection is in the database and outlives it
Restart ==
    /\ pc \in {"listening", "failed", "exited"}
    /\ pc' = "start_services"
    /\ rabbit' = NewRabbit
    /\ units' = EmptyBag
    /\ stale_alerts' = EmptyBag
    /\ deleted_count' = 0
    /\ max_age' = 0
    /\ last' = NoStep
    /\ UNCHANGED <<RABBITMQ_ENABLED, alerts, alert, now>>

Next ==
    \/ start_services
    \/ setup_timeseries
    \/ purge_read
    \/ purge_delete
    \/ purge_return
    \/ \E evt \in MetagameEvents(EventTimes(now)) : on_metagame_event(evt)
    \/ \E u \in BagToSet(units) : on_metagame_event_publish(u)
    \/ \E u \in BagToSet(units) : on_metagame_event_store(u)
    \/ Tick
    \/ KeyboardInterrupt
    \/ Restart

Spec == Init /\ [][Next]_vars

\* What the event loop (loop.run_forever) guarantees: a coroutine that can
\* take its next step takes it.  The clock advances, and the event source
\* keeps delivering events while the handler is subscribed.  Nothing obliges
\* anyone to stop and start the process.
Fairness ==
    /\ WF_vars(start_services)
    /\ WF_vars(setup_timeseries)
    /\ WF_vars(purge_read)
    /\ WF_vars(purge_delete)
    /\ WF_vars(purge_return)
    /\ WF_vars(\E u \in BagToSet(units) : on_metagame_event_publish(u))
    /\ WF_vars(\E u \in BagToSet(units) : on_metagame_event_store(u))
    /\ WF_vars(\E evt \in MetagameEvents(EventTimes(now)) :
                  on_metagame_event(evt))
    /\ WF_vars(Tick)

SpecLive == Init /\ [][Next]_vars /\ Fairness

----------------------------------------------------------------------------
(* The purge on a collection that earlier runs of the process left behind *)

\* A document the dispatcher inserted for instance_id with timestamp ts
AlertDoc(instance_id, ts) ==
    StoredDoc(EventData(CHOOSE evt \in MetagameEvents({ts}) :
                  /\ evt.instance_id = instance_id
                  /\ evt.metagame_event_state_name = "started"), ObjectId)

Copies(doc, n) == [d \in (IF n > 0 THEN {doc} ELSE {}) |-> n]

\* Collections an earlier run can leave: up to MaxBacklog alerts of instance 1
\* from minute 0 (earlier runs inserted one for each 'started' notification),
\* and alerts of instance 2 from minute 1 and from the present
Backlogs ==
    {Copies(AlertDoc(1, 0), n) (+) Copies(AlertDoc(2, 1), k)
         (+) Copies(AlertDoc(2, RetentionMinutes + 1), m) :
        n \in 0..MaxBacklog, k \in 0..1, m \in 0..1}

InitPurge ==
    /\ RABBITMQ_ENABLED \in BOOLEAN
    /\ pc = "start_services"
    /\ rabbit = NewRabbit
    /\ alerts \in Backlogs
    /\ units = EmptyBag
    /\ stale_alerts = EmptyBag
    /\ deleted_count = 0
    /\ max_age = 0
    /\ alert = NewAlert
    /\ now = RetentionMinutes + 1
    /\ last = NoStep

NextPurge ==
    \/ start_services
    \/ setup_timeseries
    \/ purge_read
    \/ purge_delete
    \/ purge_return
    \/ Restart

SpecPurge == InitPurge /\ [][NextPurge]_vars

----------------------------------------------------------------------------
(* services/AlertService.py, called by a client such as simulate_alert.py *)

\* Alert.setup: the motor client, the database and the collection; nothing is
\* sent to the server
AlertSetup ==
    /\ alert' = [is_ready |-> TRUE]
    /\ last' = [op |-> "setup", arg |-> NoField, raised |-> "none",
                result |-> NoField]
    /\ UNCHANGED <<RABBITMQ_ENABLED, pc, rabbit, alerts, units, stale_alerts,
                   deleted_count, max_age, now>>

\* What a method raises before it reaches the server: before setup
\* self._alert_collection is None; afterwards the server may be unreachable
Raises == IF alert.is_ready THEN {"none", "ConnectionFailure"}
          ELSE {"AttributeError"}

\* The dictionaries a client hands to Alert.create: with its own "_id", as
\* simulate_alert.py builds it, or asdict() of a models.MetagameEvent
CreateArgs ==
    {KeyedDoc(id, ts) : id \in Identities, ts \in Times}
        \cup {StoredDoc(EventData(evt), NoField) :
                 evt \in {e \in MetagameEvents(Times) :
                             e.metagame_event_state_name = "started"}}

\* Alert.create: insert_one(event_data), returns result.inserted_id
AlertCreate(event_data) ==
    /\ BagCardinality(alerts) < MaxDocs + 1
    /\ \E raised \in Raises :
          LET r == InsertOne(alerts, event_data)
              error == IF raised # "none" THEN raised ELSE r.error
          IN  /\ alerts' = IF error = "none" THEN r.coll ELSE alerts
              /\ last' = [op |-> "create", arg |-> event_data._id,
                          raised |-> error,
                          result |-> IF error = "none" THEN r.inserted_id
                                     ELSE NoField,
                          before |-> alerts]
    /\ UNCHANGED <<RABBITMQ_ENABLED, pc, rabbit, units, stale_alerts,
                   deleted_count, max_age, alert, now>>

\* Alert.read_one: find_one({"_id": event_id}), the document or None
AlertReadOne(event_id) ==
    /\ \E raised \in Raises :
          last' = [op |-> "read_one", arg |-> event_id, raised |-> raised,
                   result |-> IF raised = "none"
                              THEN BagToSet(FindBag(alerts, ByKey(event_id)))
                              ELSE {}]
    /\ UNCHANGED <<RABBITMQ_ENABLED, pc, rabbit, alerts, units, stale_alerts,
                   deleted_count, max_age, alert, now>>

\* Alert.read_many: find(query) then to_list(length)
AlertReadMany(length, query) ==
    /\ \E raised \in Raises :
          IF raised = "none"
          THEN \E found_documents \in ToList(alerts, query, length) :
                  last' = [op |-> "read_many", arg |-> NoField,
                           raised |-> raised, result |-> found_documents]
          ELSE last' = [op |-> "read_many", arg |-> NoField,
                        raised |-> raised, result |-> EmptyBag]
    /\ UNCHANGED <<RABBITMQ_ENABLED, pc, rabbit, alerts, units, stale_alerts,
                   deleted_count, max_age, alert, now>>

\* What Alert.count raises: count_documents puts the query into a $match
\* stage, and a server may refuse the stage when the query is None, the
\* default of Alert.count
CountRaises(query) ==
    Raises \cup (IF alert.is_ready /\ query = Everything
                 THEN {"OperationFailure"} ELSE {})

\* Alert.count: count_documents(query)
AlertCount(query) ==
    /\ \E raised \in CountRaises(query) :
          last' = [op |-> "count", arg |-> NoField, raised |-> raised,
                   result |-> IF raised = "none"
                              THEN CountDocuments(alerts, query) ELSE 0]
    /\ UNCHANGED <<RABBITMQ_ENABLED, pc, rabbit, alerts, units, stale_alerts,
                   deleted_count, max_age, alert, now>>

\* Faulty variant of RemoveFilter: the field "id" of the dispatcher's documents
RemoveFilterById(event_id) == ById(event_id)

\* The filter of Alert.remove
RemoveFilter(event_id) == ByKey(event_id)

\* The call before this one was a remove of the same id that deleted a document
Again(event_id) ==
    /\ last.op = "remove" /\ last.arg = event_id
    /\ last.raised = "none" /\ last.result = 1

\* The call before this one was a create of a record with this id that
\* returned: what it returned and the collection it found
Created(event_id) ==
    IF last.op = "create" /\ last.arg = event_id /\ last.raised = "none"
    THEN [done |-> TRUE, result |-> last.result, before |-> last.before]
    ELSE [done |-> FALSE]

\* Alert.remove: delete_one({"_id": event_id}), returns result.deleted_count
AlertRemove(event_id) ==
    /\ \E raised \in Raises :
          IF raised = "none"
          THEN \E r \in DeleteOne(alerts, RemoveFilter(event_id)) :
                  /\ alerts' = r.coll
                  /\ last' = [op |-> "remove", arg |-> event_id,
                              raised |-> raised, result |-> r.deleted_count,
                              before |-> alerts, again |-> Again(event_id),
                              created |-> Created(event_id)]
          ELSE /\ alerts' = alerts
               /\ last' = [op |-> "remove", arg |-> event_id,
                           raised |-> raised, result |-> 0,
                           before |-> alerts, again |-> Again(event_id),
                           created |-> Created(event_id)]
    /\ UNCHANGED <<RABBITMQ_ENABLED, pc, rabbit, units, stale_alerts,
                   deleted_count, max_age, alert, now>>

\* Alert.remove_many: delete_many(query), returns result.deleted_count
AlertRemoveMany(query) ==
    /\ \E raised \in Raises :
          LET r == DeleteMany(alerts, query)
          IN  /\ alerts' = IF raised = "none" THEN r.coll ELSE alerts
              /\ last' = [op |-> "remove_many", arg |-> NoField,
                          raised |-> raised,
                          result |-> IF raised = "none" THEN r.deleted_count
                                     ELSE 0]
    /\ UNCHANGED <<RABBITMQ_ENABLED, pc, rabbit, units, stale_alerts,
                   deleted_count, max_age, alert, now>>

\* The queries a client passes: every document, the stale ones, one alert
Queries == {Everything, OlderThan(1)} \cup {ById(id) : id \in Identities}

\* Collections the client may find: empty, or holding alerts the dispatcher
\* inserted, two of them for one identity
StoreContents ==
    {Copies(AlertDoc(1, 0), n) (+) Copies(AlertDoc(2, 0), k) :
        n \in 0..2, k \in 0..1}

InitStore ==
    /\ RABBITMQ_ENABLED = FALSE
    /\ pc = "client"
    /\ rabbit = NewRabbit
    /\ alerts \in StoreContents
    /\ units = EmptyBag
    /\ stale_alerts = EmptyBag
    /\ deleted_count = 0
    /\ max_age = 0
    /\ alert = NewAlert
    /\ now = 0
    /\ last = NoStep

NextStore ==
    \/ AlertSetup
    \/ \E event_data \in CreateArgs : AlertCreate(event_data)
    \/ \E event_id \in Identities : AlertReadOne(event_id)
    \/ \E length \in 1..2, query \in Queries : AlertReadMany(length, query)
    \/ \E query \in Queries : AlertCount(query)
    \/ \E event_id \in Identities : AlertRemove(event_id)
    \/ \E query \in Queries : AlertRemoveMany(query)

SpecStore == InitStore /\ [][NextStore]_vars

----------------------------------------------------------------------------
(* Properties *)

StateName(u) == u.evt.metagame_event_state_name

\* The records the collection holds for an identity
Records(coll, id) == CountDocuments(coll, ById(id))

\* This step ends the unit of work u: its handler returns or raises
Ends(u) == pc' = pc /\ units' = units (-) One(u)

\* This step is the store statement of the unit of work u
StoreStep(u) == Ends(u) /\ u.pc = "store"

\* The message body is the JSON of the record d
Carries(message, d) ==
    /\ Len(message.body) = 10
    /\ JsonMember(message.body, "id") = d.id
    /\ JsonMember(message.body, "event_id") = d.event_id
    /\ JsonMember(message.body, "state") = d.state
    /\ JsonMember(message.body, "world_id") = d.world_id
    /\ JsonMember(message.body, "zone_id") = d.zone_id
    /\ JsonMember(message.body, "nc") = d.nc
    /\ JsonMember(message.body, "tr") = d.tr
    /\ JsonMember(message.body, "vs") = d.vs
    /\ JsonMember(message.body, "xp") = d.xp
    /\ JsonMember(message.body, "timestamp") = d.timestamp

\* C1: in every reachable state the alerts collection holds at most one record
\* per identity (world_id, instance_id).
C1_AtMostOnePerIdentity ==
    \A id \in Identities : Records(alerts, id) <= 1

\* C2: the store statement of an event whose state name is 'restarted' or
\* 'xp_bonus_changed' leaves the alerts collection as it was, and the event
\* was published when the broker is enabled.
C2_PassThroughNoMutation ==
    [][\A u \in BagToSet(units) :
          (StoreStep(u) /\ StateName(u) \in {"restarted", "xp_bonus_changed"})
              => /\ alerts' = alerts
                 /\ RABBITMQ_ENABLED => Len(u.published) = 1]_vars

\* C3: when the unit of work of an 'ended' or 'cancelled' event completes
\* without a store error, the collection holds no record with the event's
\* identity; from Absent the event changes nothing.
C3_EndedLeavesAbsent ==
    [][\A u \in BagToSet(units) :
          (StoreStep(u) /\ StateName(u) \in {"ended", "cancelled"}
                        /\ ~last'.raised)
              => /\ Records(alerts', u.unique_id) = 0
                 /\ Records(alerts, u.unique_id) = 0 => alerts' = alerts]_vars

\* What C4 says of the store: a 'started' event on an Absent identity, whose
\* unit completes without error, has inserted exactly its record and the
\* identity is Active
Inserted(u) ==
    /\ last'.op = "insert_one"
    /\ alerts' = alerts (+) One(StoredDoc(u.dict_event, ObjectId))
    /\ u.dict_event.id = UniqueEventId(u.evt.world_id, u.evt.instance_id)
    /\ Records(alerts', u.unique_id) = 1

StartedOnAbsent(u) ==
    /\ StoreStep(u)
    /\ StateName(u) = "started"
    /\ Records(alerts, u.unique_id) = 0
    /\ ~last'.raised

C6_DuplicateCreateRejected ==
    [][\A u \in BagToSet(units) :
          (StoreStep(u) /\ StateName(u) = "started"
                        /\ Records(alerts, u.unique_id) >= 1)
              => /\ last'.raised
                 /\ alerts' = alerts
                 /\ Records(alerts', u.unique_id) = 1]_vars

\* C7: with the broker enabled, no unit of work ends without a publish
\* attempt: it ends at its publish statement (the attempt raised) or after it
\* handed its message to the exchange, whatever the store statement did.
C7_AlwaysPublishes ==
    [][\A u \in BagToSet(units) :
          (RABBITMQ_ENABLED /\ Ends(u))
              => \/ u.pc = "publish" /\ last'.op = "publish"
                 \/ /\ Len(u.published) = 1
                    /\ Carries(u.published[1], u.dict_event)]_vars

\* C7's case: with the broker enabled a unit of work has just ended with its
\* store statement raising
C7_Witness ==
    /\ RABBITMQ_ENABLED
    /\ last.op \in {"insert_one", "delete_one"}
    /\ last.raised

\* C8: a unit of work of a 'started', 'ended' or 'cancelled' event never ends
\* before its store statement, also when its publish raises.
C8_PublishFailureKeepsStore ==
    [][\A u \in BagToSet(units) :
          (Ends(u) /\ StateName(u) \in {"started", "ended", "cancelled"})
              => u.pc = "store"]_vars

PurgeReturned ==
    \/ last.op = "purge_return"
    \/ last.op = "purge_read" /\ ~last.raised /\ pc = "listening"

\* C9: once a purge call has returned without a removal failure, the
\* collection holds no record with a timestamp below the cutoff (every stale
\* record was removed, however many there were).
C9_PurgeRemovesAllStale ==
    PurgeReturned => CountDocuments(alerts, OlderThan(max_age)) = 0

\* C10: a removal of the purge never removes a record whose timestamp is at or
\* above the cutoff: every such record in the collection before the removal is
\* in it afterwards.
C10_PurgeKeepsFresh ==
    [][pc = "purge_delete"
          => \A doc \in BagToSet(alerts) :
                doc.timestamp >= max_age
                    => /\ doc \in BagToSet(alerts')
                       /\ CopiesIn(doc, alerts') >= CopiesIn(doc, alerts)]_vars

\* The collection holds a record of the identity whose timestamp is older than
\* the retention threshold
Outlived(id) ==
    \E doc \in BagToSet(alerts) :
        doc.id = id /\ doc.timestamp < MaxAge(now)

\* An 'ended' or 'cancelled' notification for the identity is being handled
Terminating(id) ==
    \E u \in BagToSet(units) :
        u.unique_id = id /\ StateName(u) \in {"ended", "cancelled"}

\* C11: while the process keeps running (main() stays subscribed), a record
\* that has outlived the retention threshold is eventually removed, also when
\* no 'ended' or 'cancelled' notification for its identity is delivered.
C11_LifetimeBounded ==
    \A id \in Identities :
        (pc = "listening" /\ Outlived(id))
            ~> (pc # "listening" \/ ~Outlived(id) \/ Terminating(id))

\* Rabbit.setup was called by this process and raised
SetupFailed ==
    /\ RABBITMQ_ENABLED
    /\ pc \notin {"start_services", "exited"}
    /\ ~rabbit.is_ready

\* C12: a failure of Rabbit.setup at startup, with the broker enabled, is
\* fatal: there is no state in which setup has failed and the process is
\* still there (it has exited, so it never subscribes to the event source).
C12_StartupFailureFatal == ~SetupFailed

\* What holds of C12: after a failure of Rabbit.setup main() never reaches the
\* subscription
C12_NeverSubscribes == SetupFailed => pc = "failed" /\ units = EmptyBag

\* The collection changed by one document: one inserted or one deleted
OneMutation(before, after) ==
    \/ \E doc \in BagToSet(after) : after = before (+) One(doc)
    \/ \E doc \in BagToSet(before) : after = before (-) One(doc)

\* C13: an event causes at most one publish and at most one store mutation.
\* An event delivered starts one unit of work; a unit of work has handed at most one message to the exchange, and none
\* before its publish statement; while main() is subscribed the collection
\* changes only in the store statement of a unit of work, which ends the unit,
\* and then by exactly one document inserted or one deleted.
C13_AtMostOnePublishOneMutation ==
    [][/\ BagCardinality(units') <= BagCardinality(units) + 1
       /\ \A u \in BagToSet(units) \cup BagToSet(units') :
             /\ Len(u.published) <= 1
             /\ u.pc = "publish" => u.published = << >>
       /\ (pc = "listening" /\ pc' = "listening" /\ alerts' # alerts)
             => /\ \E u \in BagToSet(units) : StoreStep(u)
                /\ OneMutation(alerts, alerts')]_vars

\* C13's case: with the broker enabled a unit of work that published has just
\* deleted a document
C13_Witness ==
    /\ RABBITMQ_ENABLED
    /\ last.op = "delete_one" /\ ~last.raised
    /\ last.deleted_count = 1

\* main() is inside purge_stale_alerts
Purging(at) == at \in {"purge_read", "purge_delete"}

\* C14: the purge does not overlap with event dispatch.  While main() is
\* inside purge_stale_alerts no unit of work exists, so none takes a step
\* between the purge's read and its last removal and every change of the
\* collection in that interval is a removal of the purge; and a process enters
\* the purge from its startup only, so no second purge starts while one is in
\* progress or after main() has subscribed.
C14_PurgeNeverOverlaps ==
    [][/\ Purging(pc) => units = EmptyBag
       /\ Purging(pc') => units' = EmptyBag
       /\ (pc' = "purge_read" /\ pc # "purge_read")
             => pc = "setup_timeseries"
       /\ (pc = "purge_delete" /\ alerts' # alerts)
             => /\ pc' = "purge_delete"
                /\ BagCardinality(stale_alerts')
                      = BagCardinality(stale_alerts) - 1]_vars

\* C14's case: the purge is between two of its removals, on a collection that
\* event handlers of an earlier run filled
C14_Witness ==
    /\ pc = "purge_delete"
    /\ deleted_count >= 1
    /\ stale_alerts # EmptyBag

\* Alert.count() of a collection: the number of its documents
Count(coll) == CountDocuments(coll, Everything)

StartPending(u) ==
    \E v \in BagToSet(units) :
        /\ v.unique_id = u.unique_id
        /\ StateName(v) = "started"
        /\ v.overlap = "then_ended"

\* C16: a 'started' and then an 'ended' or 'cancelled' notification of one
\* identity whose units of work overlap.  The removal of the later one does
\* not take effect before the insert of the earlier one: when the store
\* statement of an 'ended' or 'cancelled' notification runs without error, no
\* unit of work of an earlier 'started' notification of its identity is still
\* to insert its record (which would leave the identity Active once both
\* units have completed).
C16_OverlapEndsAbsent ==
    [][\A u \in BagToSet(units) :
          (StoreStep(u) /\ ~last'.raised
                        /\ StateName(u) \in {"ended", "cancelled"})
              => ~StartPending(u)]_vars

\* The records of an identity in a collection, with their multiplicities
RecordsOf(coll, id) ==
    [doc \in {x \in BagToSet(coll) : x.id = id} |-> coll[doc]]

\* The records of every identity other than id are the same in both
SameButFor(id, before, after) ==
    \A other \in Identities \ {id} :
        RecordsOf(after, other) = RecordsOf(before, other)

\* C17: a step of the unit of work of an event leaves the records of every
\* identity other than the event's own as they were, and so does a removal of
\* the purge for every identity other than that of the stale record it removes.
C17_OtherIdentitiesUntouched ==
    [][/\ \A u \in BagToSet(units) :
             Ends(u) => SameButFor(u.unique_id, alerts, alerts')
       /\ (pc = "listening" /\ pc' = "listening" /\ alerts' # alerts)
             => \E u \in BagToSet(units) : Ends(u)
       /\ (pc = "purge_delete" /\ pc' = "purge_delete")
             => SameButFor(last'.doc.id, alerts, alerts')]_vars

\* C17's case: the unit of work of a 'started' event has inserted its record
\* into a collection that held the record of the other identity
C17_Witness ==
    /\ last.op = "insert_one" /\ ~last.raised
    /\ \A id \in Identities : Records(alerts, id) = 1

\* Rabbit.setup has completed: connection and channel open, the exchange
\* 'events' declared, is_ready set
SetUp(r) ==
    /\ r.rmq_conn /\ r.channel
    /\ r.exchange = "events"
    /\ r.is_ready

\* C18: a unit of work is at its rabbit.publish only if Rabbit.setup has
\* completed, and setup runs at most once per process: the Rabbit object
\* changes only in start_services, from its initial state, or when the process
\* ends, and main() comes to start_services only as a new process.
C18_PublishOnlyAfterSetup ==
    [][/\ \A u \in BagToSet(units) :
             u.pc = "publish" => RABBITMQ_ENABLED /\ SetUp(rabbit)
       /\ \A u \in BagToSet(units') :
             u.pc = "publish" => RABBITMQ_ENABLED /\ SetUp(rabbit')
       /\ rabbit' # rabbit
             => \/ pc = "start_services" /\ rabbit = NewRabbit
                \/ pc' \in {"start_services", "exited"} /\ rabbit' = NewRabbit
       /\ (pc' = "start_services" /\ pc # "start_services")
             => rabbit' = NewRabbit /\ units' = EmptyBag]_vars

\* C18's case: a unit of work is about to call rabbit.publish
C18_Witness ==
    \E u \in BagToSet(units) : u.pc = "publish" /\ u.published = << >>

\* The unit of work the handler has for the same event when the broker is
\* disabled: at its store statement, nothing published
OffUnit(u) == [u EXCEPT !.pc = FirstAwait(FALSE), !.published = << >>]

\* The units of work in progress, as they are with the broker disabled
View(in_flight) ==
    LET image == {OffUnit(u) : u \in BagToSet(in_flight)}
    IN  [m \in image |->
            BagCardinality([u \in {x \in BagToSet(in_flight) : OffUnit(x) = m}
                               |-> in_flight[u]])]

\* The collections the store statement of a unit of work may leave
StoreResults(coll, u) == {store.coll : store \in StoreOutcomes(coll, u)}

\* C19: with the broker disabled no connection is set up and no unit of work
\* publishes or comes to a publish statement; and the store policy is the same
\* with the flag on and off: a publish that does not fail changes neither the
\* collection nor what the units of work will do to it, a unit of work ends
\* before its store statement only by a failed publish, and the store
\* statement of a unit of work can do to the collection exactly what that of
\* the unit of work of the same event can do with the broker disabled.
C19_FlagOffSameStorePolicy ==
    [][/\ ~RABBITMQ_ENABLED
             => /\ rabbit = NewRabbit /\ rabbit' = NewRabbit
                /\ \A u \in BagToSet(units) \cup BagToSet(units') :
                      u.pc = "store" /\ u.published = << >>
       /\ (pc' = pc /\ last'.op = "publish" /\ ~last'.raised)
             => alerts' = alerts /\ View(units') = View(units)
       /\ \A u \in BagToSet(units) :
             /\ (Ends(u) /\ u.pc # "store")
                   => last'.op = "publish" /\ last'.raised /\ alerts' = alerts
             /\ StoreStep(u)
                   => /\ alerts' \in StoreResults(alerts, OffUnit(u))
                      /\ StoreResults(alerts, u)
                            = StoreResults(alerts, OffUnit(u))]_vars

\* C19's case: with the broker disabled the unit of work of an event has
\* deleted a record
C19_Witness ==
    /\ ~RABBITMQ_ENABLED
    /\ last.op = "delete_one" /\ ~last.raised
    /\ last.deleted_count = 1

====
